---- MODULE Spec2Model ----
(***************************************************************************)
(* The monitoring engine of UptimeMonitor: MonitoringService (the          *)
(* scheduling loop, the probe executor, the immediate probe, stop), the    *)
(* parts of DatabaseManager it writes through, the uptime snapshot         *)
(* DatabaseManager.get_url_status computes from the stored checks, and the *)
(* summaries and the periodic broadcast of NotificationService.            *)
(*                                                                         *)
(* The service runs on one asyncio event loop: an action of this module is *)
(* the code a task executes between two suspension points (await of        *)
(* network I/O, of gather, of sleep).  Calls of DatabaseManager and of     *)
(* NotificationService are synchronous and belong to the step making them. *)
(***************************************************************************)
EXTENDS Integers, Sequences, FiniteSets, TLC

\* ------------------------------------------------------------------ bounds
MaxTargets == 2      \* rows ever inserted in table urls
MaxIters == 1        \* times one scheduling loop wakes from its sleep
MaxImmediate == 1    \* calls of check_single_url_immediately
TicksPerDay == 3     \* ticks of the wall clock in 24 hours
MaxClock == 5        \* ticks the wall clock advances
MaxChecks == 3       \* probes recorded while snapshots are taken
MaxLimit == 2        \* greatest limit a reader of the logs passes
MaxCalls == 2        \* immediate probes requested while the service is stopped

\* ------------------------------------------------------------------ domains
TargetIds == 1..MaxTargets
Urls == {"a", "b"}
Users == {1, 2}

\* The rows add_url is called with, in the order of the calls (so by the id
\* AUTOINCREMENT gives them): users 1 and 2 both track "a", the rows after
\* them are user 1's "b".
RowUrl(t) == IF t <= 2 THEN "a" ELSE "b"
RowUser(t) == IF t = 2 THEN 2 ELSE 1
LoopIds == {1, 2}    \* the task lifespan starts, the task of a start after a stop
ImmIds == 1..MaxImmediate
HttpCodes == {200, 399, 400}

\* What one HTTP GET against a target ends with.
Response(c) == [kind |-> "response", code |-> c]
Timeout == [kind |-> "timeout", code |-> 0]
ClientError == [kind |-> "client_error", code |-> 0]
Outcomes == {Response(c) : c \in HttpCodes} \cup {Timeout, ClientError}

\* What the target behind each row answers: the first is up, the second never
\* answers, the next ones answer with an HTTP error or refuse the connection.
Serves(t) == IF t = 1 THEN Response(200)
             ELSE IF t = 2 THEN Timeout
             ELSE IF t = 3 THEN Response(400)
             ELSE ClientError

\* What session.get can end with besides the target's own outcome.
ConnectionClosed == [kind |-> "connection_closed", code |-> 0]  \* ClientError: the session was closed under the request
SessionClosed == [kind |-> "session_closed", code |-> 0]        \* RuntimeError: get on a closed session
NoSession == [kind |-> "no_session", code |-> 0]                \* AttributeError: self.session is None

\* Sessions (aiohttp.ClientSession objects) by the place that creates them.
None == <<"none", 0>>
Main(l) == <<"main", l>>
Temp(i) == <<"temp", i>>

VARIABLES
    urls,          \* table urls: the ids of its rows
    nextId,        \* AUTOINCREMENT of table urls
    checks,        \* table checks by url_id: the rows of each url_id in insertion order
    running,       \* MonitoringService.running
    session,       \* MonitoringService.session
    closed,        \* the sessions that have been closed
    notification,  \* "none": notification_service is None; "disabled"/"enabled": its email_enabled
    loops,         \* the tasks running start_monitoring, by start
    probes,        \* per loop: the check_single_url tasks of its current pass, by url id
    imm,           \* the calls of check_single_url_immediately
    now,           \* the wall clock, in ticks
    snapshot,      \* what the last call of get_url_status or get_url_logs returned, while tables and clock are as it saw them
    report         \* what the last summary or broadcast did, while tables and clock are as it saw them

vars == <<urls, nextId, checks, running, session, closed, notification, loops, probes, imm,
          now, snapshot, report>>

\* ------------------------------------------------------------------ storage

\* DatabaseManager.get_all_urls: every row of urls (the ids, in rowid order).
get_all_urls == urls

\* Texts are sequences of character codes and numbers, compared as sqlite
\* compares TEXT: position by position, a proper prefix first.
TextGreater(a, b) ==
    \/ \E k \in 1..Len(a) :
          /\ k <= Len(b)
          /\ a[k] > b[k]
          /\ \A j \in 1..(k - 1) : a[j] = b[j]
    \/ /\ Len(a) > Len(b)
       /\ \A j \in 1..Len(b) : a[j] = b[j]

\* timestamp TIMESTAMP DEFAULT CURRENT_TIMESTAMP: the text 'YYYY-MM-DD HH:MM:SS'
\* of the instant n: the date, a space (32), the time of day.
CurrentTimestamp(n) == <<n \div TicksPerDay, 32, n % TicksPerDay>>

\* datetime.isoformat(): the text 'YYYY-MM-DDTHH:MM:SS.ffffff' of the instant
\* n: the date, the letter T (84), the time of day, the microseconds.
isoformat(n) == <<n \div TicksPerDay, 84, n % TicksPerDay, 1>>

\* The instant a stored timestamp denotes.
Instant(ts) == ts[1] * TicksPerDay + ts[3]

\* Mutant of add_check_result: the target keeps its latest row only.
add_check_result_keeps_latest(tbl, url_id, response_code, status, response_time_ms, by) ==
    [tbl EXCEPT ![url_id] = <<[url_id |-> url_id, response_code |-> response_code,
                               status |-> status,
                               response_time_ms |-> response_time_ms, by |-> by,
                               timestamp |-> CurrentTimestamp(now)]>>]

\* DatabaseManager.add_check_result: one INSERT into checks; the url_id is not
\* checked against urls (no foreign key enforcement is switched on) and the
\* timestamp is the column's default.
\* by is a history field: the task that wrote the row.
add_check_result(tbl, url_id, response_code, status, response_time_ms, by) ==
    [tbl EXCEPT ![url_id] = Append(@, [url_id |-> url_id, response_code |-> response_code,
                                       status |-> status,
                                       response_time_ms |-> response_time_ms, by |-> by,
                                       timestamp |-> CurrentTimestamp(now)])]

\* ------------------------------------------------------------------ probe executor

\* aiohttp.ClientTimeout(total=30), in microseconds.
TimeoutUs == 30000000

\* time.time() - start_time, in microseconds, when a request that ended with
\* event reaches the line that computes response_time_ms: a request cut off
\* by the timeout took the timeout or a little more; an answer, a refused or
\* a closed connection came after less than a millisecond or after more; a
\* session.get that raises at once does so within the millisecond.
Latencies(event) ==
    IF event.kind = "timeout" THEN {TimeoutUs, TimeoutUs + 2500}
    ELSE IF event.kind \in {"session_closed", "no_session"} THEN {40}
    ELSE {800, 120500}

\* The shortest of them.
Quickest(event) == CHOOSE e \in Latencies(event) : \A f \in Latencies(event) : e <= f

\* int((time.time() - start_time) * 1000): whole milliseconds, the rest cut off.
int_ms(elapsed) == elapsed \div 1000

\* Mutant of Classify: the threshold off by one.
ClassifyOffByOne(code) == IF code <= 400 THEN "success" ELSE "error"

\* status = "success" if response.status < 400 else "error"
Classify(code) == IF code < 400 THEN "success" ELSE "error"

\* Mutant of check_single_url: the except clause of a timeout only logs.
check_single_url_timeout_unrecorded(tbl, url_id, event, by, fails, elapsed) ==
    IF event.kind = "timeout"
    THEN [tbl |-> tbl, raised |-> FALSE, wrote |-> 0, dbfail |-> FALSE]
    ELSE IF event.kind = "response" /\ fails = 0
    THEN [tbl |-> add_check_result(tbl, url_id, event.code,
                                   IF event.code < 400 THEN "success" ELSE "error",
                                   int_ms(elapsed), by),
          raised |-> FALSE, wrote |-> 1, dbfail |-> FALSE]
    ELSE IF fails = 0 \/ (event.kind = "response" /\ fails = 1)
    THEN [tbl |-> add_check_result(tbl, url_id, 0, "error",
                                   int_ms(elapsed), by),
          raised |-> FALSE, wrote |-> 1, dbfail |-> fails > 0]
    ELSE [tbl |-> tbl, raised |-> TRUE, wrote |-> 0, dbfail |-> TRUE]

\* Mutant of check_single_url: no except clause for aiohttp.ClientError, the
\* connection error leaves the coroutine.
check_single_url_client_error_escapes(tbl, url_id, event, by, fails, elapsed) ==
    IF event.kind \in {"client_error", "connection_closed"}
    THEN [tbl |-> tbl, raised |-> TRUE, wrote |-> 0, dbfail |-> FALSE]
    ELSE IF event.kind = "response" /\ fails = 0
    THEN [tbl |-> add_check_result(tbl, url_id, event.code, Classify(event.code),
                                   int_ms(elapsed), by),
          raised |-> FALSE, wrote |-> 1, dbfail |-> FALSE]
    ELSE IF fails = 0 \/ (event.kind = "response" /\ fails = 1)
    THEN [tbl |-> add_check_result(tbl, url_id, 0, "error",
                                   int_ms(elapsed), by),
          raised |-> FALSE, wrote |-> 1, dbfail |-> fails > 0]
    ELSE [tbl |-> tbl, raised |-> TRUE, wrote |-> 0, dbfail |-> TRUE]

\* Mutant of check_single_url: a failed probe is recorded and tried once more,
\* and the second failure is recorded too.
check_single_url_retries_once(tbl, url_id, event, by, fails, elapsed) ==
    IF event.kind = "response" /\ event.code < 400
    THEN [tbl |-> add_check_result(tbl, url_id, event.code, "success",
                                   int_ms(elapsed), by),
          raised |-> FALSE, wrote |-> 1, dbfail |-> fails > 0]
    ELSE [tbl |-> add_check_result(add_check_result(tbl, url_id, event.code, "error",
                                                    int_ms(elapsed), by),
                                   url_id, event.code, "error", int_ms(elapsed), by),
          raised |-> FALSE, wrote |-> 2, dbfail |-> fails > 0]

\* Mutant of check_single_url: after a failed write of a response's row the
\* except clause records the error with the code the response had.
check_single_url_error_keeps_code(tbl, url_id, event, by, fails, elapsed) ==
    IF event.kind = "response" /\ fails = 0
    THEN [tbl |-> add_check_result(tbl, url_id, event.code, Classify(event.code),
                                   int_ms(elapsed), by),
          raised |-> FALSE, wrote |-> 1, dbfail |-> FALSE]
    ELSE IF event.kind = "response" /\ fails = 1
    THEN [tbl |-> add_check_result(tbl, url_id, event.code, "error",
                                   int_ms(elapsed), by),
          raised |-> FALSE, wrote |-> 1, dbfail |-> TRUE]
    ELSE IF fails = 0
    THEN [tbl |-> add_check_result(tbl, url_id, 0, "error",
                                   int_ms(elapsed), by),
          raised |-> FALSE, wrote |-> 1, dbfail |-> FALSE]
    ELSE [tbl |-> tbl, raised |-> TRUE, wrote |-> 0, dbfail |-> TRUE]

\* MonitoringService.check_single_url from the moment the request has ended
\* with `event`: the except clause chosen and the writes made.  fails is the
\* number of add_check_result calls, from the first on, that raise.
\* Result: the table, whether the coroutine raised, the rows written.
check_single_url(tbl, url_id, event, by, fails, elapsed) ==
    IF event.kind = "response"
    THEN \* body of the async with, inside the try
         IF fails = 0
         THEN [tbl |-> add_check_result(tbl, url_id, event.code, Classify(event.code),
                                   int_ms(elapsed), by),
               raised |-> FALSE, wrote |-> 1, dbfail |-> FALSE]
         ELSE \* the write raised inside the try: except Exception writes again
              IF fails = 1
              THEN [tbl |-> add_check_result(tbl, url_id, 0, "error",
                                   int_ms(elapsed), by),
                    raised |-> FALSE, wrote |-> 1, dbfail |-> TRUE]
              ELSE [tbl |-> tbl, raised |-> TRUE, wrote |-> 0, dbfail |-> TRUE]
    ELSE \* except asyncio.TimeoutError / aiohttp.ClientError / Exception
         IF fails = 0
         THEN [tbl |-> add_check_result(tbl, url_id, 0, "error",
                                   int_ms(elapsed), by),
               raised |-> FALSE, wrote |-> 1, dbfail |-> FALSE]
         ELSE [tbl |-> tbl, raised |-> TRUE, wrote |-> 0, dbfail |-> TRUE]

\* The writes that can raise in one run of check_single_url.
Fails(event) == IF event.kind = "response" THEN 0..2 ELSE 0..1

\* self.session.get(...) at its start: what it raises at once, if anything.
GetRaises == IF session = None THEN {NoSession}
             ELSE IF session \in closed THEN {SessionClosed}
             ELSE {}

\* What a request in flight on session s can end with.
Arrivals(t, s) == {Serves(t)} \cup (IF s \in closed THEN {ConnectionClosed} ELSE {})

\* event: what the request of the task ended with (None's kind before).
NoEvent == [kind |-> "none", code |-> 0]
NewTask == [pc |-> "created", sess |-> None, wrote |-> 0, dbfail |-> FALSE, event |-> NoEvent]

Finished(task, event, res) ==
    [task EXCEPT !.pc = IF res.raised THEN "raised" ELSE "returned", !.sess = None,
                 !.wrote = @ + res.wrote, !.dbfail = res.dbfail, !.event = event]

Terminal(task) == task.pc \in {"returned", "raised"}

\* ------------------------------------------------------------------ notification trigger

\* NotificationService.send_notifications_to_all_users: the whole body after
\* the email_enabled test is inside try/except Exception.
send_notifications_to_all_users(enabled, usersFail) ==
    IF ~enabled THEN "skipped"
    ELSE IF usersFail THEN "logged"
    ELSE "sent"

\* No summary or broadcast has run on the tables and the clock as they are.
\* user_id and returned: the user an on-demand summary was asked for and what
\* the caller got back.
NoReport == [call |-> "none", outcome |-> "none", processed |-> << >>,
             user_id |-> 0, returned |-> FALSE, raised |-> FALSE]

\* ------------------------------------------------------------------ scheduler

\* One task running start_monitoring.  pc: where it is suspended ("gather",
\* "sleep") or how it ended; iter: sleeps it has completed; passNo: calls of
\* check_all_urls it has made and passState how the last one stands;
\* raisedFrom: the call an exception escaped from into the loop;
\* trace: what the loop has done since its last sleep began (since the start,
\* before the first sleep ends); stopCalled: stop_monitoring has run.
IdleLoop == [pc |-> "idle", iter |-> 0, passNo |-> 0, passState |-> "none", trace |-> <<>>,
             stopCalled |-> FALSE, raisedFrom |-> "none"]

\* while self.running: ... await asyncio.sleep(300)
WhileTest(lp, run) ==
    IF run THEN [lp EXCEPT !.pc = "sleep"]
    ELSE [lp EXCEPT !.pc = "exited"]

\* start_monitoring lines 51-55, after the pass of a loop iteration returned.
Broadcast(lp, usersFail) ==
    IF notification = "none"
    THEN [lp EXCEPT !.trace = Append(@, "no_service")]
    ELSE LET res == send_notifications_to_all_users(notification = "enabled", usersFail)
         IN  IF res = "raised"
             THEN [lp EXCEPT !.trace = Append(@, "broadcast"), !.pc = "crashed",
                             !.raisedFrom = "broadcast"]
             ELSE [lp EXCEPT !.trace = Append(@, "broadcast")]

\* Mutant of AfterPass: the broadcast follows every pass, the initial one too.
AfterPassAlwaysBroadcasts(lp, run, usersFail) ==
    LET done == [lp EXCEPT !.trace = Append(@, "passed"), !.passState = "returned"]
        b == Broadcast(done, usersFail)
    IN  IF b.pc = "crashed" THEN b ELSE WhileTest(b, run)

\* start_monitoring from the return of check_all_urls to the next suspension.
AfterPass(lp, run, usersFail) ==
    LET done == [lp EXCEPT !.trace = Append(@, "passed"), !.passState = "returned"]
    IN  IF lp.iter = 0
        THEN WhileTest(done, run)
        ELSE LET b == Broadcast(done, usersFail)
             IN  IF b.pc = "crashed" THEN b ELSE WhileTest(b, run)

\* Mutant of check_all_urls: the list fetched by the first pass is reused by
\* the passes after it.
check_all_urls_keeps_list(lp, run, listFails, usersFail) ==
    LET begun == [lp EXCEPT !.passNo = @ + 1, !.passState = "running",
                            !.trace = Append(@, "pass")]
        kept == IF lp.passNo = 0 THEN get_all_urls
                ELSE UNION {DOMAIN probes[l] : l \in LoopIds}
    IN  IF listFails
        THEN [loop |-> [begun EXCEPT !.pc = "crashed", !.passState = "raised",
                                     !.raisedFrom = "pass"],
              tasks |-> << >>]
        ELSE IF kept = {}
        THEN [loop |-> AfterPass(begun, run, usersFail), tasks |-> << >>]
        ELSE [loop |-> [begun EXCEPT !.pc = "gather"],
              tasks |-> [t \in kept |-> NewTask]]

\* check_all_urls up to its await of gather: the new loop record and the
\* tasks it creates.  listFails: get_all_urls raises.
check_all_urls(lp, run, listFails, usersFail) ==
    LET begun == [lp EXCEPT !.passNo = @ + 1, !.passState = "running",
                            !.trace = Append(@, "pass")]
    IN  IF listFails
        THEN [loop |-> [begun EXCEPT !.pc = "crashed", !.passState = "raised",
                                     !.raisedFrom = "pass"],
              tasks |-> << >>]
        ELSE IF get_all_urls = {}
        THEN [loop |-> AfterPass(begun, run, usersFail), tasks |-> << >>]
        ELSE [loop |-> [begun EXCEPT !.pc = "gather"],
              tasks |-> [t \in get_all_urls |-> NewTask]]

Started == {l \in LoopIds : loops[l].pc # "idle"}

\* Mutant of start_monitoring: the loop is entered without the initial pass.
start_monitoring_sleeps_first(l) ==
    /\ loops[l].pc = "idle"
    /\ l = Cardinality(Started) + 1
    /\ ~running
    /\ loops' = [loops EXCEPT ![l].pc = "sleep"]
    /\ running' = TRUE
    /\ session' = Main(l)
    /\ UNCHANGED <<urls, nextId, checks, closed, notification, probes, imm, now, snapshot, report>>

\* Mutant of start_monitoring: a session is created only when there is none.
start_monitoring_keeps_session(l) ==
    /\ loops[l].pc = "idle"
    /\ l = Cardinality(Started) + 1
    /\ ~running
    /\ \E listFails \in BOOLEAN :
         LET r == check_all_urls(loops[l], TRUE, listFails, FALSE)
         IN  /\ loops' = [loops EXCEPT ![l] = r.loop]
             /\ probes' = [probes EXCEPT ![l] = r.tasks]
    /\ running' = TRUE
    /\ session' = IF session = None THEN Main(l) ELSE session
    /\ UNCHANGED <<urls, nextId, checks, closed, notification, imm, now, snapshot, report>>

\* MonitoringService.start_monitoring up to its first suspension.
start_monitoring(l) ==
    /\ loops[l].pc = "idle"
    /\ l = Cardinality(Started) + 1
    /\ ~running
    /\ \E listFails \in BOOLEAN :
         LET r == check_all_urls(loops[l], TRUE, listFails, FALSE)
         IN  /\ loops' = [loops EXCEPT ![l] = r.loop]
             /\ probes' = [probes EXCEPT ![l] = r.tasks]
    /\ running' = TRUE
    /\ session' = Main(l)
    /\ UNCHANGED <<urls, nextId, checks, closed, notification, imm, now, snapshot, report>>

\* await asyncio.sleep(300) returns; check_all_urls up to its gather.
Wake(l) ==
    /\ loops[l].pc = "sleep"
    /\ loops[l].iter < MaxIters
    /\ \E listFails \in BOOLEAN, usersFail \in BOOLEAN :
         LET r == check_all_urls([loops[l] EXCEPT !.iter = @ + 1, !.trace = <<"sleep">>],
                                 running, listFails, usersFail)
         IN  /\ loops' = [loops EXCEPT ![l] = r.loop]
             /\ probes' = [probes EXCEPT ![l] = r.tasks]
    /\ UNCHANGED <<urls, nextId, checks, running, session, closed, notification, imm, now, snapshot, report>>

\* The coroutines gather schedules: every one of the pass.
Dispatch(tasks) == {t \in DOMAIN tasks : tasks[t].pc = "created"}

\* The tasks gather has scheduled run, one after the other with nothing in
\* between, check_single_url up to its first suspension: the request is in
\* flight, or session.get raised at once and the except clause has run.
ProbesStart(l) ==
    /\ loops[l].pc = "gather"
    /\ Dispatch(probes[l]) # {}
    /\ LET D == Dispatch(probes[l])
           by == <<l, loops[l].passNo>>
       IN  IF GetRaises = {}
           THEN /\ probes' = [probes EXCEPT ![l] =
                               [t \in DOMAIN @ |-> IF t \in D
                                                   THEN [@[t] EXCEPT !.pc = "inflight", !.sess = session]
                                                   ELSE @[t]]]
                /\ UNCHANGED checks
           ELSE \E event \in GetRaises : \E fails \in [D -> Fails(event)] :
                  /\ checks' = [t \in TargetIds |->
                                 IF t \in D
                                 THEN check_single_url(checks, t, event, by, fails[t], Quickest(event)).tbl[t]
                                 ELSE checks[t]]
                  /\ probes' = [probes EXCEPT ![l] =
                                 [t \in DOMAIN @ |->
                                    IF t \in D
                                    THEN Finished(@[t], event,
                                                  check_single_url(checks, t, event, by, fails[t], Quickest(event)))
                                    ELSE @[t]]]
    /\ UNCHANGED <<urls, nextId, running, session, closed, notification, loops, imm, now, snapshot, report>>

\* The request of a task ends; check_single_url runs to its end.
ProbeComplete(l, t) ==
    /\ t \in DOMAIN probes[l]
    /\ probes[l][t].pc = "inflight"
    /\ \E event \in Arrivals(t, probes[l][t].sess) : \E fails \in Fails(event) :
         LET res == check_single_url(checks, t, event, <<l, loops[l].passNo>>, fails, Quickest(event))
         IN  /\ checks' = res.tbl
             /\ probes' = [probes EXCEPT ![l][t] = Finished(@, event, res)]
    /\ UNCHANGED <<urls, nextId, running, session, closed, notification, loops, imm, now, snapshot, report>>

\* Mutant of GatherReady: the wait ends with the first task that is done.
GatherFirstCompleted(tasks) == \E t \in DOMAIN tasks : Terminal(tasks[t])

\* asyncio.gather(*tasks, return_exceptions=True) returns when every task is
\* done; the exceptions are printed, check_all_urls returns.
GatherReady(tasks) == \A t \in DOMAIN tasks : Terminal(tasks[t])

GatherDone(l) ==
    /\ loops[l].pc = "gather"
    /\ GatherReady(probes[l])
    /\ \E usersFail \in BOOLEAN :
         loops' = [loops EXCEPT ![l] = AfterPass(@, running, usersFail)]
    /\ UNCHANGED <<urls, nextId, checks, running, session, closed, notification, probes, imm, now, snapshot, report>>

Current == Cardinality(Started)

\* MonitoringService.stop_monitoring.
stop_monitoring ==
    /\ Current >= 1
    /\ ~loops[Current].stopCalled
    /\ running' = FALSE
    /\ closed' = IF session # None THEN closed \cup {session} ELSE closed
    /\ loops' = [loops EXCEPT ![Current].stopCalled = TRUE]
    /\ UNCHANGED <<urls, nextId, checks, session, notification, probes, imm, now, snapshot, report>>

\* lifespan: monitoring_task.cancel() after stop_monitoring; the gather the
\* task waits in cancels its children.
lifespan_cancel(l) ==
    /\ loops[l].stopCalled
    /\ loops[l].pc \in {"sleep", "gather"}
    /\ loops' = [loops EXCEPT ![l].pc = "cancelled"]
    /\ probes' = [probes EXCEPT ![l] =
                    [t \in DOMAIN @ |-> IF Terminal(@[t]) THEN @[t]
                                        ELSE [@[t] EXCEPT !.pc = "cancelled"]]]
    /\ UNCHANGED <<urls, nextId, checks, running, session, closed, notification, imm, now, snapshot, report>>

\* ------------------------------------------------------------------ immediate probe

\* url: the argument of the call; user_id: the user whose request made the
\* call (0 when it is not known) and own: the row of that user for the url
\* when the call was made (0 for none).
IdleImm == [pc |-> "idle", target |-> 0, sess |-> None, temp |-> FALSE,
            wrote |-> 0, dbfail |-> FALSE, event |-> NoEvent,
            url |-> "", user_id |-> 0, own |-> 0]

\* DatabaseManager.user_owns_url as the id of the row, 0 for none.
OwnRow(url, user_id) ==
    LET rows == {t \in urls : RowUrl(t) = url /\ RowUser(t) = user_id}
    IN  IF rows = {} THEN 0 ELSE CHOOSE t \in rows : TRUE

\* Mutant of Lookup: the first row of the list, whatever its url.
Lookup_first_row(url) ==
    IF urls = {} THEN 0 ELSE CHOOSE t \in urls : \A o \in urls : t <= o

\* next((u for u in urls if u["url"] == url), None): the first row, 0 for None.
Lookup(url) ==
    LET hits == {t \in urls : RowUrl(t) = url}
    IN  IF hits = {} THEN 0 ELSE CHOOSE t \in hits : \A o \in hits : t <= o

\* check_single_url_immediately up to its first suspension.
check_single_url_immediately(i, url, user_id) ==
    /\ imm[i].pc = "idle"
    /\ IF i = 1 THEN TRUE ELSE imm[i - 1].pc # "idle"
    /\ \E listFails \in BOOLEAN :
         LET call == [imm[i] EXCEPT !.url = url, !.user_id = user_id,
                                    !.own = OwnRow(url, user_id)]
             t == Lookup(url)
         IN  IF listFails
             THEN /\ imm' = [imm EXCEPT ![i] = [call EXCEPT !.pc = "raised"]]
                  /\ UNCHANGED <<checks, session>>
             ELSE IF t = 0
             THEN /\ imm' = [imm EXCEPT ![i] = [call EXCEPT !.pc = "returned"]]
                  /\ UNCHANGED <<checks, session>>
             ELSE IF session # None
             THEN IF GetRaises = {}
                  THEN /\ imm' = [imm EXCEPT ![i] = [call EXCEPT !.pc = "inflight", !.target = t,
                                                                 !.sess = session]]
                       /\ UNCHANGED <<checks, session>>
                  ELSE \E event \in GetRaises : \E fails \in Fails(event) :
                         LET res == check_single_url(checks, t, event, <<0, i>>, fails, Quickest(event))
                         IN  /\ checks' = res.tbl
                             /\ imm' = [imm EXCEPT ![i] =
                                          Finished([call EXCEPT !.target = t, !.sess = session], event, res)]
                             /\ UNCHANGED session
             ELSE \* temporary session
                  /\ session' = Temp(i)
                  /\ imm' = [imm EXCEPT ![i] = [call EXCEPT !.pc = "inflight", !.target = t,
                                                            !.sess = Temp(i), !.temp = TRUE]]
                  /\ UNCHANGED checks
    /\ UNCHANGED <<urls, nextId, running, closed, notification, loops, probes, now, snapshot, report>>

\* The request of an immediate probe ends; check_single_url runs to its end,
\* then lines 148 and the exit of the async with of the temporary session.
ImmediateComplete(i) ==
    /\ imm[i].pc = "inflight"
    /\ \E event \in Arrivals(imm[i].target, imm[i].sess) : \E fails \in Fails(event) :
         LET res == check_single_url(checks, imm[i].target, event, <<0, i>>, fails, Quickest(event))
         IN  /\ checks' = res.tbl
             /\ imm' = [imm EXCEPT ![i] = Finished(@, event, res)]
             /\ session' = IF imm[i].temp /\ ~res.raised THEN None ELSE session
    /\ closed' = IF imm[i].temp THEN closed \cup {Temp(i)} ELSE closed
    /\ UNCHANGED <<urls, nextId, running, notification, loops, probes, now, snapshot, report>>

\* One run of check_single_url(url_data) for the row t, taken alone: the
\* request ends with any event of ProbeEvents.
ProbeCodes == {100, 200, 204, 301, 302, 399, 400, 401, 404, 500, 503, 599}
ProbeEvents == {Response(c) : c \in ProbeCodes}
               \cup {Timeout, ClientError, ConnectionClosed, SessionClosed, NoSession}

ProbeOnce(i, t) ==
    /\ imm[i].pc = "idle"
    /\ \E event \in ProbeEvents : \E fails \in Fails(event) :
         \E elapsed \in Latencies(event) :
         LET res == check_single_url(checks, t, event, <<0, i>>, fails, elapsed)
         IN  /\ checks' = res.tbl
             /\ imm' = [imm EXCEPT ![i] = Finished([@ EXCEPT !.target = t], event, res)]
    /\ UNCHANGED <<urls, nextId, running, session, closed, notification, loops, probes, now, snapshot, report>>

\* ------------------------------------------------------------------ snapshot

\* Mutant of round2: the digits after the second are cut off.
round2_truncates(num, den) == (10000 * num) \div den

\* Percentages are numbers of hundredths: 5000 is 50.00.
\* round(x, 2) of x = 100 * num / den: the nearest hundredth, a tie to the
\* even one.
round2(num, den) ==
    LET q == (10000 * num) \div den
        r == (10000 * num) % den
    IN  IF 2 * r < den THEN q
        ELSE IF 2 * r > den THEN q + 1
        ELSE IF q % 2 = 0 THEN q ELSE q + 1

\* Mutant of uptime_percentage: no check counted gives 100.
uptime_percentage_default_up(total_checks, successful_checks) ==
    IF total_checks > 0 THEN round2(successful_checks, total_checks) ELSE 10000

\* (successful_checks / total_checks * 100) if total_checks > 0 else 0, rounded.
uptime_percentage(total_checks, successful_checks) ==
    IF total_checks > 0 THEN round2(successful_checks, total_checks) ELSE 0

\* The rows of url_id the uptime query counts at instant `at`:
\* WHERE url_id = ? AND timestamp > yesterday.isoformat().
uptime_data(url_id, at) ==
    {k \in 1..Len(checks[url_id]) :
        TextGreater(checks[url_id][k].timestamp, isoformat(at - TicksPerDay))}

Null == << >>

\* Mutant of latest_check: only the rows the uptime query counts are looked at.
latest_check_in_window(url_id) ==
    LET rows == uptime_data(url_id, now)
    IN  IF rows = {} THEN Null
        ELSE checks[url_id][CHOOSE k \in rows :
                 \A o \in rows : ~TextGreater(checks[url_id][o].timestamp,
                                               checks[url_id][k].timestamp)].timestamp

\* SELECT timestamp ... WHERE url_id = ? ORDER BY timestamp DESC LIMIT 1.
latest_check(url_id) ==
    LET rows == 1..Len(checks[url_id])
    IN  IF rows = {} THEN Null
        ELSE checks[url_id][CHOOSE k \in rows :
                 \A o \in rows : ~TextGreater(checks[url_id][o].timestamp,
                                               checks[url_id][k].timestamp)].timestamp

NotFound == [found |-> FALSE, url_id |-> 0, uptime_percentage |-> 0, last_checked |-> Null]

\* DatabaseManager.get_url_status(url, user_id), user_id given.
get_url_status(url, user_id) ==
    LET hits == {t \in urls : RowUrl(t) = url /\ RowUser(t) = user_id}
    IN  IF hits = {} THEN NotFound
        ELSE LET url_id == CHOOSE t \in hits : TRUE
                 counted == uptime_data(url_id, now)
                 total_checks == Cardinality(counted)
                 successful_checks ==
                     Cardinality({k \in counted : checks[url_id][k].status = "success"})
             IN  [found |-> TRUE, url_id |-> url_id,
                  uptime_percentage |-> uptime_percentage(total_checks, successful_checks),
                  last_checked |-> latest_check(url_id)]

NoSnapshot == [call |-> "none", url |-> "", user_id |-> 0, result |-> NotFound]

\* The status endpoint: db_manager.get_url_status(url, current_user["user_id"]).
GetStatus(url, user_id) ==
    /\ snapshot' = [call |-> "get_url_status", url |-> url, user_id |-> user_id,
                  result |-> get_url_status(url, user_id)]
    /\ report' = NoReport
    /\ UNCHANGED <<urls, nextId, checks, running, session, closed, notification, loops, probes, imm, now>>

\* The clock advances by one tick.
Tick ==
    /\ now < MaxClock
    /\ now' = now + 1
    /\ snapshot' = NoSnapshot
    /\ report' = NoReport
    /\ UNCHANGED <<urls, nextId, checks, running, session, closed, notification, loops, probes, imm>>

\* The rows written since the service was constructed.
Recorded == UNION {{<<t, k>> : k \in {j \in 1..Len(checks[t]) : checks[t][j].by = <<0, 0>>}} :
                       t \in TargetIds}

\* One run of check_single_url for the tracked row t, taken alone, its
\* request answered or timed out and its write succeeding.
RecordCheck(t) ==
    /\ t \in urls
    /\ Cardinality(Recorded) < MaxChecks
    /\ \E event \in {Response(200), Timeout} :
         checks' = check_single_url(checks, t, event, <<0, 0>>, 0, Quickest(event)).tbl
    /\ snapshot' = NoSnapshot
    /\ report' = NoReport
    /\ UNCHANGED <<urls, nextId, running, session, closed, notification, loops, probes, imm, now>>

\* ------------------------------------------------------------------ history

\* The limits a caller passes: GET /logs takes any integer.
Limits == -1..MaxLimit

\* FROM checks c JOIN urls u ON c.url_id = u.id WHERE u.url = ? AND
\* u.user_id = ?: the rows, each named by its target and its position.
\* Without a user_id (0 here) the query is by url alone.
LogRows(url, user_id) ==
    UNION {{<<t, k>> : k \in 1..Len(checks[t])} :
             t \in {u \in urls : RowUrl(u) = url /\ (user_id = 0 \/ RowUser(u) = user_id)}}

\* ORDER BY c.timestamp DESC: the rows in any order in which none comes before
\* a row of a greater timestamp.
Descending(S) ==
    {f \in [1..Cardinality(S) -> S] :
        /\ \A i, j \in 1..Cardinality(S) : i # j => f[i] # f[j]
        /\ \A i, j \in 1..Cardinality(S) :
               i < j => ~TextGreater(checks[f[j][1]][f[j][2]].timestamp,
                                     checks[f[i][1]][f[i][2]].timestamp)}

\* LIMIT ?: the first rows; sqlite takes a negative limit as no limit.
LimitTo(rows, limit) ==
    IF limit < 0 THEN rows
    ELSE SubSeq(rows, 1, IF limit < Len(rows) THEN limit ELSE Len(rows))

\* DatabaseManager.get_url_logs: the lists it can return.  url_id and row say
\* which row of checks an entry was made from.
get_url_logs(url, user_id, limit) ==
    {[i \in 1..Len(rows) |->
        [url_id |-> rows[i][1], row |-> rows[i][2],
         timestamp |-> checks[rows[i][1]][rows[i][2]].timestamp,
         status |-> checks[rows[i][1]][rows[i][2]].status,
         http_code |-> checks[rows[i][1]][rows[i][2]].response_code]] :
       rows \in {LimitTo(f, limit) : f \in Descending(LogRows(url, user_id))}}

\* GET /logs/{url}: 404 unless the user owns the url, then get_url_logs with
\* the user's id.
GetLogs(url, user_id, limit) ==
    /\ \E t \in urls : RowUrl(t) = url /\ RowUser(t) = user_id
    /\ \E logs \in get_url_logs(url, user_id, limit) :
         snapshot' = [call |-> "get_url_logs", url |-> url, user_id |-> user_id,
                      result |-> [limit |-> limit, logs |-> logs]]
    /\ report' = NoReport
    /\ UNCHANGED <<urls, nextId, checks, running, session, closed, notification, loops, probes, imm, now>>

\* ------------------------------------------------------------------ notification summary

\* DatabaseManager.get_user_urls: the rows of urls of the user.
get_user_urls(user_id) == {t \in urls : RowUser(t) = user_id}

\* DatabaseManager.get_users_with_urls: SELECT DISTINCT over users joined with
\* urls; every tracked row belongs to a registered user.
get_users_with_urls == {RowUser(t) : t \in urls}

\* if status.get("uptime_percentage", 100) < 99
DegradedBelow == 9900

\* Mutant of Degraded: a target at the threshold counts too.
DegradedAtThreshold(p) == p <= DegradedBelow

\* Mutant of Degraded: a target with nothing counted in the window is left out.
Degraded_unless_unprobed(p) == 0 < p /\ p < DegradedBelow

Degraded(p) == p < DegradedBelow

\* The subject line: "... site(s) need attention" if down_sites > 0 else
\* "... All systems operational".
subject(down_sites) == IF down_sites > 0 THEN "need attention" ELSE "operational"

\* What can go wrong for one user: nothing; send_email returns False;
\* the address is missing; a query of the aggregation raises.
Failures == {"none", "delivery", "no_address", "aggregation"}

\* NotificationService.send_user_uptime_summary(user_id, user_email) with
\* email enabled: what it did for the user.  composed: the e-mail body was
\* built, with total_sites and down_sites; sent: the value returned.
send_user_uptime_summary(user_id, failure) ==
    LET user_urls == get_user_urls(user_id)
        summary_data == [t \in user_urls |-> get_url_status(RowUrl(t), user_id)]
        down_sites == Cardinality({t \in user_urls : Degraded(summary_data[t].uptime_percentage)})
        skipped == [user_id |-> user_id, failure |-> failure, composed |-> FALSE,
                    total_sites |-> 0, down_sites |-> 0, subject |-> "none",
                    sent |-> FALSE]
    IN  IF failure = "aggregation" THEN skipped
        ELSE IF user_urls = {} THEN skipped
        ELSE [user_id |-> user_id, failure |-> failure, composed |-> TRUE,
              total_sites |-> Cardinality(user_urls), down_sites |-> down_sites,
              subject |-> subject(down_sites),
              sent |-> failure = "none"]

\* The users in the order the query lists them.
RECURSIVE Listed(_)
Listed(us) ==
    IF us = {} THEN << >>
    ELSE LET u == CHOOSE x \in us : \A y \in us : x <= y
         IN  <<u>> \o Listed(us \ {u})

\* Mutant of notify_users: the loop ends with the first user that fails.
RECURSIVE notify_users_until_failure(_, _)
notify_users_until_failure(users_with_urls, fails) ==
    IF users_with_urls = << >> THEN << >>
    ELSE LET done == send_user_uptime_summary(Head(users_with_urls), fails[Head(users_with_urls)])
         IN  IF done.sent THEN <<done>> \o notify_users_until_failure(Tail(users_with_urls), fails)
             ELSE <<done>>

\* for user_data in users_with_urls: self.send_user_uptime_summary(...)
RECURSIVE notify_users(_, _)
notify_users(users_with_urls, fails) ==
    IF users_with_urls = << >> THEN << >>
    ELSE <<send_user_uptime_summary(Head(users_with_urls), fails[Head(users_with_urls)])>>
         \o notify_users(Tail(users_with_urls), fails)

\* Mutant of send_user_notification: a summary that was composed counts as
\* sent, whatever send_email returned.
send_user_notification_swallows_failure(user_id, failure) ==
    IF notification # "enabled"
    THEN [returned |-> FALSE, raised |-> FALSE, processed |-> << >>]
    ELSE LET done == send_user_uptime_summary(user_id, failure)
         IN  [returned |-> done.composed, raised |-> FALSE, processed |-> <<done>>]

\* MonitoringService.send_user_notification: what the caller gets.  Without a
\* notification service it returns False; with e-mail not configured
\* send_user_uptime_summary returns False before its try block; everything
\* else runs under "except Exception: return False", so nothing is raised.
send_user_notification(user_id, failure) ==
    IF notification = "none"
    THEN [returned |-> FALSE, raised |-> FALSE, processed |-> << >>]
    ELSE IF notification = "disabled"
    THEN [returned |-> FALSE, raised |-> FALSE, processed |-> << >>]
    ELSE LET done == send_user_uptime_summary(user_id, failure)
         IN  [returned |-> done.sent, raised |-> FALSE, processed |-> <<done>>]

\* POST /send-report: MonitoringService.send_user_notification.
Summarize(user_id) ==
    /\ \E failure \in Failures :
         LET success == send_user_notification(user_id, failure)
         IN  report' = [call |-> "summary",
                        outcome |-> IF notification = "enabled" THEN "sent" ELSE "skipped",
                        processed |-> success.processed, user_id |-> user_id,
                        returned |-> success.returned, raised |-> success.raised]
    /\ snapshot' = NoSnapshot
    /\ UNCHANGED <<urls, nextId, checks, running, session, closed, notification, loops, probes, imm, now>>

\* NotificationService.send_notifications_to_all_users, user by user.
PeriodicBroadcast ==
    /\ notification # "none"
    /\ \E usersFail \in BOOLEAN, fails \in [Users -> Failures] :
         LET outcome == send_notifications_to_all_users(notification = "enabled", usersFail)
         IN  report' = [call |-> "broadcast", outcome |-> outcome,
                        processed |-> IF outcome = "sent"
                                      THEN notify_users(Listed(get_users_with_urls), fails)
                                      ELSE << >>,
                        user_id |-> 0, returned |-> FALSE, raised |-> FALSE]
    /\ snapshot' = NoSnapshot
    /\ UNCHANGED <<urls, nextId, checks, running, session, closed, notification, loops, probes, imm, now>>

\* ------------------------------------------------------------------ targets

\* DatabaseManager.add_url: UNIQUE(url, user_id); a duplicate changes nothing.
add_url(url, user_id) ==
    /\ nextId <= MaxTargets
    /\ url = RowUrl(nextId) /\ user_id = RowUser(nextId)
    /\ ~\E t \in urls : RowUrl(t) = url /\ RowUser(t) = user_id
    /\ urls' = urls \cup {nextId}
    /\ nextId' = nextId + 1
    /\ UNCHANGED <<checks, running, session, closed, notification, loops, probes, imm, now, snapshot, report>>

\* DatabaseManager.remove_url: the checks of the row, then the row.
remove_url(url, user_id) ==
    /\ \E t \in urls :
         /\ RowUrl(t) = url /\ RowUser(t) = user_id
         /\ checks' = [checks EXCEPT ![t] = << >>]
         /\ urls' = urls \ {t}
    /\ UNCHANGED <<nextId, running, session, closed, notification, loops, probes, imm, now, snapshot, report>>

\* Mutant of remove_url_outcome: the rows are selected by the url alone.
remove_url_by_url_alone(url, user_id) ==
    LET found == {t \in urls : RowUrl(t) = url}
    IN  IF \A t \in found : RowUser(t) # user_id
        THEN [returned |-> FALSE, deleted |-> 0, urls |-> urls, checks |-> checks]
        ELSE [returned |-> TRUE,
              deleted |-> Len(checks[CHOOSE t \in found : RowUser(t) = user_id]),
              urls |-> urls \ found,
              checks |-> [t \in TargetIds |-> IF t \in found THEN << >> ELSE checks[t]]]

\* DatabaseManager.remove_url as a function of the tables: the value returned,
\* the rows of checks deleted and the tables after the commit.  UNIQUE(url,
\* user_id) leaves at most one row to find.
remove_url_outcome(url, user_id) ==
    LET found == {t \in urls : RowUrl(t) = url /\ RowUser(t) = user_id}
    IN  IF found = {}
        THEN [returned |-> FALSE, deleted |-> 0, urls |-> urls, checks |-> checks]
        ELSE LET url_id == CHOOSE t \in found : TRUE
             IN  [returned |-> TRUE, deleted |-> Len(checks[url_id]),
                  urls |-> urls \ {url_id},
                  checks |-> [checks EXCEPT ![url_id] = << >>]]

\* A call of DatabaseManager.remove_url, whether the user owns the url or not.
RemoveUrl(url, user_id) ==
    /\ LET done == remove_url_outcome(url, user_id)
       IN  /\ urls' = done.urls
           /\ checks' = done.checks
           /\ snapshot' = [call |-> "remove_url", url |-> url, user_id |-> user_id,
                           result |-> [returned |-> done.returned, deleted |-> done.deleted]]
    /\ report' = NoReport
    /\ UNCHANGED <<nextId, running, session, closed, notification, loops, probes, imm, now>>

\* ------------------------------------------------------------------ specification

Init ==
    /\ urls = {}
    /\ nextId = 1
    /\ checks = [t \in TargetIds |-> << >>]
    /\ running = FALSE
    /\ session = None
    /\ closed = {}
    /\ notification \in {"none", "disabled", "enabled"}
    /\ loops = [l \in LoopIds |-> IdleLoop]
    /\ probes = [l \in LoopIds |-> << >>]
    /\ imm = [i \in ImmIds |-> IdleImm]
    /\ now = 0
    /\ snapshot = NoSnapshot
    /\ report = NoReport

Scheduler ==
    \/ start_monitoring(1)
    \/ \E l \in LoopIds : Wake(l)
    \/ \E l \in LoopIds : ProbesStart(l)
    \/ \E l \in LoopIds, t \in TargetIds : ProbeComplete(l, t)
    \/ \E l \in LoopIds : GatherDone(l)
    \/ stop_monitoring
    \/ \E l \in LoopIds : lifespan_cancel(l)

Targets ==
    \/ \E url \in Urls, user_id \in Users : add_url(url, user_id)
    \/ \E url \in Urls, user_id \in Users : remove_url(url, user_id)

Immediate ==
    \/ \E i \in ImmIds, url \in Urls : check_single_url_immediately(i, url, 0)
    \/ \E i \in ImmIds : ImmediateComplete(i)

\* The whole engine.
Next == Scheduler \/ Targets \/ Immediate

Spec == Init /\ [][Next]_vars

\* The scheduler and the targets, no immediate probe requested.
NextSched == Scheduler \/ Targets

SpecSched == Init /\ [][NextSched]_vars

\* start_monitoring called again after stop_monitoring.
Restart == \E l \in LoopIds \ {1} : start_monitoring(l)

\* The database the service is constructed on holds no target or one.
InitRestart ==
    /\ urls \in {{}, {1}}
    /\ nextId = Cardinality(urls) + 1
    /\ checks = [t \in TargetIds |-> << >>]
    /\ running = FALSE
    /\ session = None
    /\ closed = {}
    /\ notification \in {"none", "disabled", "enabled"}
    /\ loops = [l \in LoopIds |-> IdleLoop]
    /\ probes = [l \in LoopIds |-> << >>]
    /\ imm = [i \in ImmIds |-> IdleImm]
    /\ now = 0
    /\ snapshot = NoSnapshot
    /\ report = NoReport

\* The scheduler started, stopped and started again; nobody cancels a task
\* and the targets stay as they are.
NextRestart ==
    \/ start_monitoring(1)
    \/ stop_monitoring
    \/ Restart
    \/ \E l \in LoopIds : Wake(l)
    \/ \E l \in LoopIds : ProbesStart(l)
    \/ \E l \in LoopIds, t \in TargetIds : ProbeComplete(l, t)
    \/ \E l \in LoopIds : GatherDone(l)

SpecRestart == InitRestart /\ [][NextRestart]_vars

\* 100 rows of target 1 from before the service was constructed, all of the
\* current day: 99 successes, then an error.
History == [k \in 1..100 |->
               [url_id |-> 1, response_code |-> IF k < 100 THEN 200 ELSE 0,
                status |-> IF k < 100 THEN "success" ELSE "error",
                response_time_ms |-> 120, by |-> <<0, -1>>,
                timestamp |-> CurrentTimestamp(0)]]

\* The engine as constructed, the clock at the start of a day.
Constructed ==
    /\ running = FALSE
    /\ session = None
    /\ closed = {}
    /\ loops = [l \in LoopIds |-> IdleLoop]
    /\ probes = [l \in LoopIds |-> << >>]
    /\ imm = [i \in ImmIds |-> IdleImm]
    /\ now = 0
    /\ snapshot = NoSnapshot
    /\ report = NoReport

\* A database in which nobody, the first user or both users track "a", with
\* no check recorded yet.
Tracked ==
    /\ \E n \in 0..Cardinality(Users) : urls = {t \in 1..n : RowUrl(t) = "a"}
    /\ nextId = Cardinality(urls) + 1
    /\ checks = [t \in TargetIds |-> << >>]

\* The database is read without a notification service.
InitSnapshot == Tracked /\ Constructed /\ notification = "none"

\* The service is constructed with a notification service, e-mail configured
\* or not.
InitBroadcast == Tracked /\ Constructed /\ notification \in {"disabled", "enabled"}

\* Probes are recorded as time passes and snapshots are taken of what is
\* stored.
NextSnapshot ==
    \/ Tick
    \/ \E t \in TargetIds : RecordCheck(t)
    \/ \E url \in Urls, user_id \in Users : GetStatus(url, user_id)

SpecSnapshot == InitSnapshot /\ [][NextSnapshot]_vars

\* Probes are recorded and the periodic broadcast runs over what is stored.
NextBroadcast ==
    \/ \E t \in TargetIds : RecordCheck(t)
    \/ PeriodicBroadcast

SpecBroadcast == InitBroadcast /\ [][NextBroadcast]_vars

\* The service is constructed with a notification service on a database that
\* holds the targets and the history of the first.
InitSummary ==
    /\ urls = TargetIds
    /\ nextId = MaxTargets + 1
    /\ checks = [t \in TargetIds |-> IF t = 1 THEN History ELSE << >>]
    /\ notification \in {"disabled", "enabled"}
    /\ Constructed

\* Probes are recorded on top of the history and the users ask for their
\* summaries.
NextSummary ==
    \/ \E t \in TargetIds : RecordCheck(t)
    \/ \E user_id \in Users : Summarize(user_id)

SpecSummary == InitSummary /\ [][NextSummary]_vars

\* The service is constructed, e-mail configured, at any instant of the
\* clock, on a database in which target 1 has no row or one successful row
\* recorded at instant 0.
InitAttention ==
    /\ \E n \in 0..Cardinality(Users) : urls = {t \in 1..n : RowUrl(t) = "a"}
    /\ nextId = Cardinality(urls) + 1
    /\ \E old \in {k \in 0..1 : k = 0 \/ 1 \in urls} :
          checks = [t \in TargetIds |-> IF t = 1 THEN SubSeq(History, 1, old) ELSE << >>]
    /\ notification = "enabled"
    /\ running = FALSE
    /\ session = None
    /\ closed = {}
    /\ loops = [l \in LoopIds |-> IdleLoop]
    /\ probes = [l \in LoopIds |-> << >>]
    /\ imm = [i \in ImmIds |-> IdleImm]
    /\ now \in 0..MaxClock
    /\ snapshot = NoSnapshot
    /\ report = NoReport

\* Probes are recorded and the users ask for their summaries.
NextAttention ==
    \/ \E t \in TargetIds : RecordCheck(t)
    \/ \E user_id \in Users : Summarize(user_id)

SpecAttention == InitAttention /\ [][NextAttention]_vars

\* Both users track "a"; no check is recorded yet.
InitLogs ==
    /\ urls = {t \in 1..Cardinality(Users) : RowUrl(t) = "a"}
    /\ nextId = Cardinality(urls) + 1
    /\ checks = [t \in TargetIds |-> << >>]
    /\ notification = "none"
    /\ Constructed

\* Probes are recorded as time passes and the users read their logs.
NextLogs ==
    \/ Tick
    \/ \E t \in TargetIds : RecordCheck(t)
    \/ \E url \in Urls, user_id \in Users, limit \in Limits : GetLogs(url, user_id, limit)

SpecLogs == InitLogs /\ [][NextLogs]_vars

\* The scheduling loop while the service runs and is not stopped, with targets
\* added and removed at any moment.
NextPasses ==
    \/ start_monitoring(1)
    \/ \E l \in LoopIds : Wake(l)
    \/ \E l \in LoopIds : ProbesStart(l)
    \/ \E l \in LoopIds, t \in TargetIds : ProbeComplete(l, t)
    \/ \E l \in LoopIds : GatherDone(l)
    \/ Targets

SpecPasses == Init /\ [][NextPasses]_vars

\* The service is constructed and never started; users add and remove
\* targets and ask for immediate probes (POST /track, /check, /check-all), up
\* to MaxCalls of them, which may overlap.
Callers == 1..MaxCalls

InitImmediate ==
    /\ urls = {}
    /\ nextId = 1
    /\ checks = [t \in TargetIds |-> << >>]
    /\ running = FALSE
    /\ session = None
    /\ closed = {}
    /\ notification = "none"
    /\ loops = [l \in LoopIds |-> IdleLoop]
    /\ probes = [l \in LoopIds |-> << >>]
    /\ imm = [i \in Callers |-> IdleImm]
    /\ now = 0
    /\ snapshot = NoSnapshot
    /\ report = NoReport

NextImmediate ==
    \/ Targets
    \/ \E i \in Callers, url \in Urls, user_id \in Users :
          check_single_url_immediately(i, url, user_id)
    \/ \E i \in Callers : ImmediateComplete(i)

SpecImmediate == InitImmediate /\ [][NextImmediate]_vars

\* The statements that write the tables urls and checks.
NextStore ==
    \/ \E url \in Urls, user_id \in Users : add_url(url, user_id)
    \/ \E url \in Urls, user_id \in Users : RemoveUrl(url, user_id)
    \/ \E t \in TargetIds : RecordCheck(t)

SpecStore == InitSnapshot /\ [][NextStore]_vars

\* The service as constructed without a notification service, with e-mail
\* not configured, or with e-mail configured.
InitOnDemand == Tracked /\ Constructed /\ notification \in {"none", "disabled", "enabled"}

\* Probes are recorded and the users ask for their summaries.
NextOnDemand ==
    \/ \E t \in TargetIds : RecordCheck(t)
    \/ \E user_id \in Users : Summarize(user_id)

SpecOnDemand == InitOnDemand /\ [][NextOnDemand]_vars

\* The probe executor alone: check_single_url run once per slot on every
\* outcome a request can end with, on any target, with any failing writes.
NextProbe == \E i \in ImmIds, t \in TargetIds : ProbeOnce(i, t)

SpecProbe == Init /\ [][NextProbe]_vars

\* ------------------------------------------------------------------ claims

\* The rows of url_id t that the task tagged `by` has written.
RowsBy(t, by) == {k \in 1..Len(checks[t]) : checks[t][k].by = by}

PassTag(l) == <<l, loops[l].passNo>>

\* C1: once a pass has returned, whatever each of its targets answered, every
\* target of the pass that is still tracked and whose record write did not
\* raise has exactly one new row written by that pass; and a pass that has
\* dispatched probes never propagates an error to its caller.
C1_PassRecordsEveryTarget ==
    \A l \in LoopIds :
        /\ loops[l].passState = "returned" =>
             \A t \in DOMAIN probes[l] :
                 (t \in urls /\ ~probes[l][t].dbfail) =>
                     Cardinality(RowsBy(t, PassTag(l))) = 1
        /\ DOMAIN probes[l] # {} => loops[l].passState # "raised"

\* C1 witness: a returned pass over two targets, one answering 200 and one
\* timing out, each with its one row.
C1_Witness ==
    \E l \in LoopIds :
        /\ loops[l].passState = "returned"
        /\ DOMAIN probes[l] = {1, 2}
        /\ probes[l][1].event = Response(200) /\ probes[l][2].event = Timeout
        /\ \E k \in RowsBy(1, PassTag(l)) : checks[1][k].status = "success"
        /\ \E k \in RowsBy(2, PassTag(l)) : checks[2][k].status = "error"

\* C2: the row one run of check_single_url writes, when its write does not
\* raise: a response below 400 gives "success" with the code as received, a
\* response of 400 or more gives "error" with the code as received, a timeout
\* and a connection-level failure give "error" with code 0.
C2_Classification ==
    \A i \in ImmIds :
        (imm[i].pc = "returned" /\ ~imm[i].dbfail) =>
            LET e == imm[i].event
                t == imm[i].target
            IN  /\ Cardinality(RowsBy(t, <<0, i>>)) = 1
                /\ \A k \in RowsBy(t, <<0, i>>) :
                     LET r == checks[t][k]
                     IN  /\ r.url_id = t
                         /\ (e.kind = "response" /\ e.code < 400) =>
                                (r.status = "success" /\ r.response_code = e.code)
                         /\ (e.kind = "response" /\ e.code >= 400) =>
                                (r.status = "error" /\ r.response_code = e.code)
                         /\ e.kind = "timeout" =>
                                (r.status = "error" /\ r.response_code = 0)
                         /\ e.kind \in {"client_error", "connection_closed"} =>
                                (r.status = "error" /\ r.response_code = 0)

\* C2 witness: a response with code 399 has been recorded as a success.
C2_Witness ==
    \E i \in ImmIds :
        /\ imm[i].pc = "returned" /\ imm[i].event = Response(399)
        /\ \E k \in RowsBy(imm[i].target, <<0, i>>) :
               checks[imm[i].target][k].status = "success"

\* C3 (as claimed): no exception ever escapes from a scheduled pass or from a
\* periodic broadcast into the scheduling loop.
C3_NoErrorReachesLoop ==
    \A l \in LoopIds : loops[l].raisedFrom = "none"

\* C4 (as claimed): a loop that was started and not stopped never ends; it is
\* in a pass or asleep.
C4_LoopNeverEnds ==
    \A l \in LoopIds :
        (loops[l].pc # "idle" /\ ~loops[l].stopCalled) => loops[l].pc \in {"gather", "sleep"}

\* C5: the step that makes the scheduler Running begins the first pass, and
\* the loop reaches its first sleep only after that pass has returned.
C5_InitialPassBeforeSleep ==
    \A l \in LoopIds :
        /\ loops[l].pc # "idle" => loops[l].passNo >= 1
        /\ (loops[l].pc = "sleep" /\ loops[l].iter = 0) =>
               (loops[l].passNo = 1 /\ loops[l].passState = "returned"
                /\ loops[l].trace = <<"pass", "passed">>)

\* C5 witness: the loop is in its first sleep and the initial pass has
\* recorded both targets.
C5_Witness ==
    \E l \in LoopIds :
        /\ loops[l].pc = "sleep" /\ loops[l].iter = 0
        /\ DOMAIN probes[l] = {1, 2}
        /\ \A t \in {1, 2} : RowsBy(t, <<l, 1>>) # {}

IsPrefix(s, t) == Len(s) <= Len(t) /\ \A k \in 1..Len(s) : s[k] = t[k]

\* C6: what a loop does from the start to the end of its first sleep is a
\* pass and nothing else; what it does from then on, from the end of one
\* sleep to the end of the next, is that sleep, one pass begun and returned,
\* then the broadcast (or its omission when there is no notification
\* service), in this order.
C6_SleepPassBroadcast ==
    \A l \in LoopIds :
        IF loops[l].iter = 0
        THEN IsPrefix(loops[l].trace, <<"pass", "passed">>)
        ELSE \/ IsPrefix(loops[l].trace, <<"sleep", "pass", "passed", "broadcast">>)
             \/ IsPrefix(loops[l].trace, <<"sleep", "pass", "passed", "no_service">>)

\* C6 witness: an iteration has slept, probed two targets and broadcast.
C6_Witness ==
    \E l \in LoopIds :
        /\ loops[l].trace = <<"sleep", "pass", "passed", "broadcast">>
        /\ DOMAIN probes[l] = {1, 2}
        /\ \A t \in {1, 2} : RowsBy(t, PassTag(l)) # {}

C8_FailedWriteDropsRecord ==
    \A l \in LoopIds : \A t \in DOMAIN probes[l] :
        probes[l][t].dbfail => RowsBy(t, PassTag(l)) = {}

\* C9 (as claimed): a probe whose request was in flight when stop_monitoring
\* closed the session does not record the connection error the closing
\* produced: it records what its target answered, or nothing.
C9_StopDoesNotCorruptProbes ==
    \A l \in LoopIds : \A t \in DOMAIN probes[l] :
        probes[l][t].event.kind = "connection_closed" => RowsBy(t, PassTag(l)) = {}

\* C10 (as claimed): an immediate probe never issues its request on a closed
\* session: it uses the open shared one when Running, else a fresh one.
C10_ImmediateUsesOpenSession ==
    \A i \in ImmIds : imm[i].event.kind # "session_closed"

\* C11 (as claimed): once stop_monitoring has returned the scheduler is not
\* running and the session start_monitoring created is closed.
C11_StopClosesSession ==
    \A l \in LoopIds :
        (l = Current /\ loops[l].stopCalled) => (~running /\ Main(l) \in closed)

\* The broadcasts a loop has triggered since its last sleep began.
Broadcasts(lp) == Cardinality({k \in DOMAIN lp.trace : lp.trace[k] = "broadcast"})

\* C12 (as claimed): while the scheduler is stopped (stop_monitoring has been
\* called and start_monitoring has not been called again) no loop begins a
\* pass and no loop triggers a broadcast.
C12_NoPassAfterStop ==
    [][(Current >= 1 /\ ~running /\ ~running') =>
          \A l \in LoopIds :
              /\ loops'[l].passNo = loops[l].passNo
              /\ Broadcasts(loops'[l]) <= Broadcasts(loops[l])]_vars

\* C14 (as claimed): the rows of table checks reference rows of table urls;
\* no row is stored for a target that has been removed (remove_url deletes
\* the rows of the target with it, and an id is never given twice).
C14_RecordsReferenceTargets ==
    \A t \in TargetIds : t \notin urls => checks[t] = << >>

\* C13: a start after a stop makes the scheduler Running again on a new, open
\* shared session (until stop_monitoring is called again); the restarted loop
\* begins a pass in the step that starts it, reaches its first sleep only
\* when that pass has returned, issues the requests of its passes on the new
\* session, can always wake from its sleep to the next pass, and has made one
\* more pass than it has slept.
C13_Restartable ==
    \A l \in LoopIds \ {1} :
        loops[l].pc # "idle" =>
            /\ (l = Current /\ ~loops[l].stopCalled) =>
                   (running /\ session = Main(l) /\ session \notin closed)
            /\ loops[l].passNo = loops[l].iter + 1
            /\ (loops[l].pc = "sleep" /\ loops[l].iter = 0) => loops[l].passState = "returned"
            /\ \A t \in DOMAIN probes[l] :
                   probes[l][t].pc = "inflight" => probes[l][t].sess = Main(l)
            /\ (loops[l].pc = "sleep" /\ loops[l].iter < MaxIters) => ENABLED Wake(l)

\* C13 witness: the scheduler was stopped and started again; the restarted
\* loop has made its initial pass and a periodic pass, each with a successful
\* record of target 1, and sleeps with the scheduler Running.
C13_Witness ==
    /\ loops[1].stopCalled /\ running /\ session = Main(2) /\ session \notin closed
    /\ loops[2].pc = "sleep" /\ loops[2].iter = 1 /\ loops[2].passState = "returned"
    /\ \A n \in 1..2 : \E k \in RowsBy(1, <<2, n>>) : checks[1][k].status = "success"

\* The rows of url_id younger than 24 hours, and those exactly 24 hours old.
Younger(url_id) ==
    {k \in 1..Len(checks[url_id]) : now - Instant(checks[url_id][k].timestamp) < TicksPerDay}

AtBoundary(url_id) ==
    {k \in 1..Len(checks[url_id]) : now - Instant(checks[url_id][k].timestamp) = TicksPerDay}

\* 100 * successful / total over the rows K of url_id, 0 over no row.
Ratio(url_id, K) ==
    IF K = {} THEN 0
    ELSE round2(Cardinality({k \in K : checks[url_id][k].status = "success"}), Cardinality(K))

\* C15 (as claimed): the percentage of a snapshot is 100 * successful / total
\* over the records younger than 24 hours at the query (a record exactly 24
\* hours old may count or not), at whatever time of day the query is made.
C15_WindowedUptime ==
    (snapshot.call = "get_url_status" /\ snapshot.result.found) =>
        \E S \in SUBSET AtBoundary(snapshot.result.url_id) :
            snapshot.result.uptime_percentage =
                Ratio(snapshot.result.url_id, Younger(snapshot.result.url_id) \cup S)

\* C16: last_checked of a snapshot is null exactly when the target has no
\* record, and is otherwise the timestamp of a record that no record of the
\* target is later than, whatever its age.
C16_LastChecked ==
    (snapshot.call = "get_url_status" /\ snapshot.result.found) =>
        LET t == snapshot.result.url_id
            last == snapshot.result.last_checked
        IN  /\ last = Null <=> checks[t] = << >>
            /\ checks[t] # << >> =>
                   /\ \E k \in 1..Len(checks[t]) : checks[t][k].timestamp = last
                   /\ \A k \in 1..Len(checks[t]) : Instant(checks[t][k].timestamp) <= Instant(last)

\* C16 witness: the only records of the target are older than 24 hours and
\* last_checked is the timestamp of the latest of them.
C16_Witness ==
    /\ snapshot.call = "get_url_status" /\ snapshot.result.found
    /\ Len(checks[snapshot.result.url_id]) >= 2
    /\ snapshot.result.last_checked # Null
    /\ now - Instant(snapshot.result.last_checked) > TicksPerDay
    /\ \E k \in 1..Len(checks[snapshot.result.url_id]) :
           Instant(checks[snapshot.result.url_id][k].timestamp) < Instant(snapshot.result.last_checked)

\* C17: a snapshot of a target with no record younger than 24 hours has the
\* percentage 0, whether the target has older records or none.
C17_EmptyWindowIsZero ==
    (snapshot.call = "get_url_status" /\ snapshot.result.found
     /\ Younger(snapshot.result.url_id) = {}) =>
        snapshot.result.uptime_percentage = 0

\* C17 witness: the target has a successful record, older than 24 hours, and
\* the snapshot says 0.
C17_Witness ==
    /\ snapshot.call = "get_url_status" /\ snapshot.result.found
    /\ Younger(snapshot.result.url_id) = {}
    /\ \E k \in 1..Len(checks[snapshot.result.url_id]) :
           checks[snapshot.result.url_id][k].status = "success"
    /\ snapshot.result.uptime_percentage = 0

\* C18: the percentage of a snapshot is a number of hundredths between 0.00
\* and 100.00, and it is a hundredth nearest to 100 * successful / total of
\* the records the query counted.
C18_PercentageRange ==
    (snapshot.call = "get_url_status" /\ snapshot.result.found) =>
        LET t == snapshot.result.url_id
            p == snapshot.result.uptime_percentage
            total == Cardinality(uptime_data(t, now))
            successful == Cardinality({k \in uptime_data(t, now) : checks[t][k].status = "success"})
            err == p * total - 10000 * successful
        IN  /\ p \in 0..10000
            /\ total > 0 => (2 * err <= total /\ -2 * err <= total)

\* C18 witness: two successes in three counted records, reported as 66.67.
C18_Witness ==
    /\ snapshot.call = "get_url_status" /\ snapshot.result.found
    /\ Cardinality(uptime_data(snapshot.result.url_id, now)) = 3
    /\ snapshot.result.uptime_percentage = 6667

\* The percentage a snapshot of the row t gives now.
PercentageOf(t) == get_url_status(RowUrl(t), RowUser(t)).uptime_percentage

\* C19: the down_sites of a user's summary is the number of targets of the
\* user whose snapshot percentage is below 99.00; a target at 99.00 is not
\* among them.
C19_DegradedCount ==
    (report.call = "summary" /\ report.outcome = "sent") =>
        \A k \in 1..Len(report.processed) :
            report.processed[k].composed =>
                report.processed[k].down_sites =
                    Cardinality({t \in urls : /\ RowUser(t) = report.processed[k].user_id
                                              /\ PercentageOf(t) < 9900})

\* C19 witness: the summary of a user whose target stands at exactly 99.00
\* (99 successes in 100 records) counts no degraded target.
C19_Witness ==
    /\ report.call = "summary" /\ Len(report.processed) = 1
    /\ report.processed[1].composed
    /\ \E t \in urls : RowUser(t) = report.processed[1].user_id /\ PercentageOf(t) = 9900
    /\ report.processed[1].down_sites = 0

\* C20: a periodic broadcast that is enabled and has listed the users calls
\* send_user_uptime_summary once for every user who owns a target and for
\* nobody else, whatever failed for the users before; the value reported for
\* a user is true exactly when nothing failed for that user.
C20_BroadcastReachesEveryUser ==
    (report.call = "broadcast" /\ report.outcome = "sent") =>
        /\ \A u \in get_users_with_urls :
               Cardinality({k \in 1..Len(report.processed) : report.processed[k].user_id = u}) = 1
        /\ \A k \in 1..Len(report.processed) :
               /\ report.processed[k].user_id \in get_users_with_urls
               /\ report.processed[k].sent <=> report.processed[k].failure = "none"

\* C20 witness: the first user's e-mail could not be delivered and the second
\* user's summary was sent.
C20_Witness ==
    /\ report.call = "broadcast" /\ Len(report.processed) = 2
    /\ report.processed[1].failure = "delivery" /\ ~report.processed[1].sent
    /\ report.processed[2].sent

\* C21: an on-demand summary hands the caller a boolean and raises nothing: it
\* is true exactly when the summary was composed and send_email delivered it,
\* and false when there is no notification service or e-mail is not
\* configured, when the user tracks no target, when the aggregation raised and
\* when the delivery failed.
C21_SummaryOutcomeIsBoolean ==
    report.call = "summary" =>
        LET delivered == /\ notification = "enabled"
                         /\ Len(report.processed) = 1
                         /\ report.processed[1].composed
                         /\ report.processed[1].failure = "none"
        IN  /\ report.returned \in BOOLEAN
            /\ ~report.raised
            /\ report.returned <=> delivered
            /\ notification # "enabled" => ~report.returned
            /\ get_user_urls(report.user_id) = {} => ~report.returned
            /\ \A k \in 1..Len(report.processed) :
                   report.processed[k].failure # "none" => ~report.returned

\* C21 witness: a user who tracks a target asked for the summary with e-mail
\* configured and the delivery failed, so the call returned false.
C21_Witness ==
    /\ report.call = "summary" /\ notification = "enabled"
    /\ get_user_urls(report.user_id) # {}
    /\ Len(report.processed) = 1
    /\ report.processed[1].composed /\ report.processed[1].failure = "delivery"
    /\ ~report.returned /\ ~report.raised

\* C22: every pass fetches the list of targets when it starts: in a step in
\* which a loop begins a pass whose fetch succeeds, the probes of the pass are
\* those of exactly the targets tracked at that moment, so a target added
\* before is among them and a target removed before is not.
C22_PassFetchesTargetsAnew ==
    [][\A l \in LoopIds :
          (loops'[l].passNo = loops[l].passNo + 1 /\ loops'[l].passState # "raised")
              => DOMAIN probes'[l] = urls]_vars

\* C22 witness: the second pass of a loop has probed and recorded target 2
\* alone; target 2 has no record of the first pass, and target 1, which was
\* added before it, is tracked no more.
C22_Witness ==
    /\ loops[1].passNo = 2
    /\ DOMAIN probes[1] = {2}
    /\ probes[1][2].pc = "returned" /\ probes[1][2].wrote = 1
    /\ RowsBy(2, <<1, 1>>) = {}
    /\ RowsBy(2, <<1, 2>>) # {}
    /\ urls = {2}

\* C23: the list get_url_logs returned is in descending order of timestamp,
\* has at most limit entries (none for a limit below zero), every entry is a
\* record of the target of the queried url and user, and when it has fewer
\* than limit entries it holds every record of that target.
C23_LogsOfQueriedTarget ==
    snapshot.call = "get_url_logs" =>
        LET logs == snapshot.result.logs
            limit == snapshot.result.limit
        IN  /\ \A i, j \in 1..Len(logs) :
                   i < j => ~TextGreater(logs[j].timestamp, logs[i].timestamp)
            /\ Len(logs) <= (IF limit < 0 THEN 0 ELSE limit)
            /\ \A i \in 1..Len(logs) :
                   /\ logs[i].url_id \in urls
                   /\ RowUrl(logs[i].url_id) = snapshot.url
                   /\ RowUser(logs[i].url_id) = snapshot.user_id
                   /\ logs[i].row \in 1..Len(checks[logs[i].url_id])
                   /\ logs[i].timestamp = checks[logs[i].url_id][logs[i].row].timestamp
            /\ Len(logs) < limit =>
                   \A r \in LogRows(snapshot.url, snapshot.user_id) :
                      \E i \in 1..Len(logs) : <<logs[i].url_id, logs[i].row>> = r

\* C24: the rows of checks are append-only: in every step the rows a target
\* had are still there, unchanged and in place, with new rows only after
\* them; or the target is removed in that step and all its rows go at once.
C24_RecordsAppendOnly ==
    [][\A t \in TargetIds :
          \/ IsPrefix(checks[t], checks'[t])
          \/ (t \in urls /\ t \notin urls' /\ checks'[t] = << >>)]_vars

\* C24 witness: target 1 holds the rows of two passes, the older still in
\* front of the newer, after target 2 was removed.
C24_Witness ==
    /\ Len(checks[1]) = 2
    /\ checks[1][1].by = <<1, 1>> /\ checks[1][2].by = <<1, 2>>
    /\ 1 \in urls /\ 2 \notin urls /\ nextId = 3
    /\ checks[2] = << >>

\* The targets the user of the last call of remove_url owned under its url,
\* before the call.
Owned == {t \in urls : RowUrl(t) = snapshot'.url /\ RowUser(t) = snapshot'.user_id}

\* C25: a call of remove_url for a target its user owns returns true, removes
\* that target and all its rows of checks in the same step, and leaves every
\* other target and every other target's rows as they were, a target of
\* another user with the same url included; a call for a url the user does
\* not own returns false and changes neither table.
C25_RemoveUrlFrame ==
    [][(snapshot'.call = "remove_url" /\ snapshot' # snapshot) =>
          IF Owned # {}
          THEN /\ snapshot'.result.returned
               /\ urls' = urls \ Owned
               /\ \A t \in Owned : checks'[t] = << >>
               /\ \A t \in TargetIds \ Owned : checks'[t] = checks[t]
          ELSE /\ ~snapshot'.result.returned
               /\ urls' = urls
               /\ checks' = checks]_vars

\* C25 witness: the first user removed "a" with a record on it while the
\* second user tracks "a" too: the second user's target and its record are
\* still there.
C25_Witness ==
    /\ snapshot.call = "remove_url" /\ snapshot.url = "a" /\ snapshot.user_id = 1
    /\ snapshot.result.returned /\ snapshot.result.deleted >= 1
    /\ 1 \notin urls /\ checks[1] = << >>
    /\ 2 \in urls /\ RowUrl(2) = "a" /\ Len(checks[2]) >= 1

\* C26: while the service is running, the session field holds the session the
\* last call of start_monitoring created, and that session is open.
C26_RunningSessionIsStarted ==
    running => /\ Current >= 1
               /\ session = Main(Current)
               /\ session \notin closed

\* The request of the run ended in a probe failure: a timeout, a connection
\* error or a response with a code of 400 or more.
ProbeFailed(task) ==
    \/ task.event.kind \in {"timeout", "client_error", "connection_closed"}
    \/ task.event.kind = "response" /\ task.event.code >= 400

\* C27: a run of check_single_url whose request ended in a probe failure does
\* not raise that failure: when no write to the store raised, it has returned
\* normally with exactly one row of status "error" written; the only
\* exception that leaves it is that of a failing write.
C27_ProbeFailureIsRecorded ==
    \A i \in ImmIds :
        (Terminal(imm[i]) /\ ProbeFailed(imm[i])) =>
            /\ imm[i].pc = "raised" => imm[i].dbfail
            /\ ~imm[i].dbfail =>
                   /\ imm[i].pc = "returned"
                   /\ Cardinality(RowsBy(imm[i].target, <<0, i>>)) = 1
                   /\ \A k \in RowsBy(imm[i].target, <<0, i>>) :
                          checks[imm[i].target][k].status = "error"

\* C27 witness: a run whose request ended in a connection error has returned
\* with an "error" row of code 0.
C27_Witness ==
    \E i \in ImmIds :
        /\ imm[i].pc = "returned" /\ imm[i].event = ClientError /\ ~imm[i].dbfail
        /\ \E k \in RowsBy(imm[i].target, <<0, i>>) :
               /\ checks[imm[i].target][k].status = "error"
               /\ checks[imm[i].target][k].response_code = 0

\* C29: every row a probe of a pass wrote carries the whole milliseconds of
\* the time its request took, whatever the request ended with; and the row
\* of a target that never answers carries at least the 30 seconds of the
\* timeout, less than twice that, and never 0.
C29_LatencyRecorded ==
    \A l \in LoopIds : \A t \in DOMAIN probes[l] : \A k \in RowsBy(t, PassTag(l)) :
        LET r == checks[t][k]
        IN  /\ \E e \in Latencies(probes[l][t].event) : r.response_time_ms = int_ms(e)
            /\ Serves(t) = Timeout =>
                   /\ r.response_time_ms >= int_ms(TimeoutUs)
                   /\ r.response_time_ms < 2 * int_ms(TimeoutUs)
                   /\ r.response_time_ms # 0

\* C30: a probe of a pass makes one attempt and writes at most one row: no
\* task has written more than once, no target has more than one row of one
\* pass, and a task that has ended stays as it ended for the rest of its
\* pass, whatever its request ended with.
C30_SingleAttempt ==
    /\ [](\A l \in LoopIds : \A t \in DOMAIN probes[l] :
             /\ probes[l][t].wrote <= 1
             /\ Cardinality(RowsBy(t, PassTag(l))) <= 1)
    /\ [][\A l \in LoopIds : \A t \in DOMAIN probes[l] :
             (Terminal(probes[l][t]) /\ loops'[l].passNo = loops[l].passNo)
                 => (t \in DOMAIN probes'[l] /\ probes'[l][t] = probes[l][t])]_vars

\* C30 witness: a pass has returned and its loop sleeps; the probe of the
\* target that never answers ended in a timeout and left one "error" row.
C30_Witness ==
    \E l \in LoopIds :
        /\ loops[l].pc = "sleep" /\ loops[l].passState = "returned"
        /\ 2 \in DOMAIN probes[l]
        /\ probes[l][2].pc = "returned" /\ probes[l][2].event = Timeout
        /\ probes[l][2].wrote = 1
        /\ Cardinality(RowsBy(2, PassTag(l))) = 1
        /\ \A k \in RowsBy(2, PassTag(l)) : checks[2][k].status = "error"

\* The rows, of any target, that the immediate probe i has written.
RowsOfCall(i) == UNION {{<<t, k>> : k \in RowsBy(t, <<0, i>>)} : t \in TargetIds}

\* C31: a call of check_single_url_immediately for a url that no row of
\* table urls has ends in the step that makes it, unless the fetch of the
\* list itself raised: it has returned, no row is written and neither the
\* session field nor the set of closed sessions changes; such a call never
\* has a row or a session of its own later either.  A call for a url that
\* some row has, once returned with no write raised and the target still
\* tracked, has written exactly one row, on the target it looked up, with the
\* code and status check_single_url gives the way its request ended.
C31_ImmediateProbeOfUnknownUrl ==
    /\ [](\A i \in Callers :
            /\ (imm[i].pc = "returned" /\ imm[i].target = 0) =>
                   /\ RowsOfCall(i) = {} /\ imm[i].wrote = 0
                   /\ ~imm[i].temp /\ session # Temp(i) /\ Temp(i) \notin closed
            /\ (imm[i].pc = "returned" /\ imm[i].target # 0
                    /\ imm[i].target \in urls /\ ~imm[i].dbfail) =>
                   LET e == imm[i].event
                       t == imm[i].target
                   IN  /\ RowUrl(t) = imm[i].url
                       /\ Cardinality(RowsOfCall(i)) = 1
                       /\ \A k \in RowsBy(t, <<0, i>>) :
                            /\ checks[t][k].url_id = t
                            /\ checks[t][k].response_code =
                                   (IF e.kind = "response" THEN e.code ELSE 0)
                            /\ checks[t][k].status =
                                   (IF e.kind = "response" /\ e.code < 400
                                    THEN "success" ELSE "error"))
    /\ [][\A i \in Callers :
            (/\ imm[i].pc = "idle" /\ imm'[i].pc \notin {"idle", "raised"}
             /\ \A t \in urls : RowUrl(t) # imm'[i].url) =>
                /\ imm'[i].pc = "returned" /\ imm'[i].target = 0
                /\ checks' = checks /\ session' = session /\ closed' = closed]_vars

\* C31 witness: with target 1 tracked and the service never started, a probe
\* of url "b" has returned with no row and no session, and a probe of url
\* "a" has returned with its one row, a success, on target 1.
C31_Witness ==
    /\ urls = {1} /\ ~running
    /\ \E i, j \in Callers :
          /\ imm[i].pc = "returned" /\ imm[i].url = "b" /\ imm[i].target = 0
          /\ RowsOfCall(i) = {} /\ ~imm[i].temp
          /\ imm[j].pc = "returned" /\ imm[j].url = "a" /\ imm[j].target = 1
          /\ \E k \in RowsBy(1, <<0, j>>) : checks[1][k].status = "success"

\* C32 (as claimed): an immediate probe made for a user's request for a url
\* that user had a target for writes its row on that target: no other
\* target, and so no other user's target with the same url, gets a row of it.
C32_ProbeRecordsOnRequestersTarget ==
    \A i \in Callers :
        imm[i].own # 0 =>
            \A t \in TargetIds \ {imm[i].own} : RowsBy(t, <<0, i>>) = {}

\* C33 (as claimed): with the service never started, the request of every
\* immediate probe is in flight on a session that is open, no immediate probe
\* ends with the error of a closed session or connection, and whenever no
\* immediate probe is in flight the session field is None, also after a
\* probe whose record write raised.
C33_ConcurrentImmediateProbes ==
    /\ \A i \in Callers :
          /\ imm[i].pc = "inflight" => imm[i].sess \notin closed
          /\ imm[i].event.kind \notin {"session_closed", "connection_closed"}
    /\ (\A i \in Callers : imm[i].pc # "inflight") => session = None

\* C34 (as claimed): once start_monitoring has been called again after
\* stop_monitoring, and nobody cancels a task, the loop of an earlier start
\* begins no pass and triggers no broadcast any more.
C34_SingleSchedulingLoop ==
    [][\A l \in LoopIds :
          l < Current =>
              /\ loops'[l].passNo = loops[l].passNo
              /\ Broadcasts(loops'[l]) <= Broadcasts(loops[l])]_vars

\* C35: every row of table checks has status "success" or "error"; it has
\* "success" exactly when its response code c satisfies 0 < c < 400, and a
\* row with code 0 has status "error", whatever the probes answered and
\* whichever writes raised.
C35_StatusMatchesCode ==
    \A t \in TargetIds : \A k \in 1..Len(checks[t]) :
        LET r == checks[t][k]
        IN  /\ r.status \in {"success", "error"}
            /\ r.status = "success" <=> (0 < r.response_code /\ r.response_code < 400)
            /\ r.response_code = 0 => r.status = "error"

\* C35 witness: a probe got a response with code 200, its write raised and
\* the row the except clause stored has code 0 and status "error".
C35_Witness ==
    \E i \in ImmIds :
        /\ imm[i].pc = "returned" /\ imm[i].event = Response(200) /\ imm[i].dbfail
        /\ \E k \in RowsBy(imm[i].target, <<0, i>>) :
              /\ checks[imm[i].target][k].response_code = 0
              /\ checks[imm[i].target][k].status = "error"

\* The targets of a user with no row younger than 24 hours, the targets never
\* probed among them.
OutOfWindow(user_id) == {t \in urls : RowUser(t) = user_id /\ Younger(t) = {}}

\* C36: in a composed summary of a user, every target of the user with no row
\* younger than 24 hours has uptime percentage 0, such a target that was
\* never probed has last_checked null, all of them are counted in down_sites,
\* and when there is one the subject says that sites need attention.
C36_UnprobedTargetNeedsAttention ==
    report.call = "summary" =>
        \A k \in 1..Len(report.processed) :
            LET e == report.processed[k]
            IN  e.composed =>
                  /\ \A t \in OutOfWindow(e.user_id) :
                        /\ get_url_status(RowUrl(t), e.user_id).uptime_percentage = 0
                        /\ checks[t] = << >> =>
                              get_url_status(RowUrl(t), e.user_id).last_checked = Null
                  /\ e.down_sites >= Cardinality(OutOfWindow(e.user_id))
                  /\ OutOfWindow(e.user_id) # {} => e.subject = "need attention"

\* C36 witness: user 1's summary was composed when the only row of their
\* target, a success, was more than 24 hours old (user 2's target has never
\* been probed); it counts one degraded site and says that it needs attention.
C36_Witness ==
    /\ report.call = "summary" /\ Len(report.processed) = 1
    /\ report.processed[1].composed
    /\ report.processed[1].subject = "need attention"
    /\ report.processed[1].down_sites = 1
    /\ urls = {1, 2} /\ checks[2] = << >>
    /\ Len(checks[1]) = 1 /\ checks[1][1].status = "success"
    /\ report.processed[1].user_id = 1 /\ OutOfWindow(1) = {1} /\ now > TicksPerDay

====
